---- MODULE Spec2Model ----
(***************************************************************************)
(* Sticker PDF generator (app.py): the grid calculator, the text fitter,   *)
(* the cell renderer, the colour assigner, the file loader and the sheet   *)
(* paginator make_multi_sticker_pdf_dynamic, as a state machine.           *)
(*                                                                         *)
(* Texts are sequences of one-character strings.  Lengths in inches are    *)
(* binary floating-point numbers (Python floats); the model keeps them as  *)
(* integers in a fixed small unit and uses a significand of MantBits bits  *)
(* in place of the 53 of binary64.  Of the float operations the quotient   *)
(* of compute_grid is rounded as the hardware rounds it (to nearest, ties  *)
(* to even), because the floor taken of it turns the rounding into a       *)
(* whole column or row; the input sets are chosen so that the sums and     *)
(* products of the other lines are exact.  Points are inches * 72.         *)
(***************************************************************************)
EXTENDS Integers, Sequences, FiniteSets, TLC

VARIABLES
    nan_as_text,    \* pandas build: astype(str) turns a missing cell into "nan" (pandas < 3) or keeps it missing
    upload,         \* rows of the uploaded file, <<>> when the rows are passed directly
    jobs_df,        \* the frame handed to make_multi_sticker_pdf_dynamic
    args,           \* page_w_in, page_h_in, margin_in, sticker_w_in, sticker_h_in
    pc,             \* position: "upload", "ready", "drawing", "saving", "returned", "raised"
    error,          \* message of the ValueError raised, "" if none
    df,             \* cleaned rows [top, bottom, count] of make_multi_sticker_pdf_dynamic
    color_mapping,  \* (top, bottom) -> colour
    grid,           \* [cols, rows, capacity] as computed once
    geom,           \* points: page, margins, sticker size, offsets
    canvas,         \* TRUE once canvas.Canvas(...) was created
    stream_pos,     \* items the generator sticker_stream has yielded
    total_count,
    drawn,
    slot,           \* next slot of the page being drawn
    page,           \* cells drawn on the page not yet shown
    pages,          \* pages emitted by c.showPage()
    summary,        \* the returned summary, <<>> before the return
    grid_in,        \* arguments of a compute_grid call
    grid_out,       \* its result, <<>> before the call
    fit_in,         \* arguments of a fit_font_size call (text and font through the measured width)
    fit_out         \* its result, <<>> before the call

vars == <<nan_as_text, upload, jobs_df, args, pc, error, df, color_mapping, grid,
          geom, canvas, stream_pos, total_count, drawn, slot, page, pages, summary,
          grid_in, grid_out, fit_in, fit_out>>

pipeVars == <<nan_as_text, upload, jobs_df, args, pc, error, df, color_mapping, grid,
              geom, canvas, stream_pos, total_count, drawn, slot, page, pages, summary>>

pureVars == <<grid_in, grid_out, fit_in, fit_out>>

(***************************************************************************)
(* Bounds of the model.                                                    *)
(***************************************************************************)
MantBits == 4        \* bits of the float significand
MaxRows == 2         \* rows of a job list
MaxCount == 3        \* largest count of a row
MaxUploadRows == 2   \* rows of an uploaded file
MaxColorRows == 13   \* rows of a job list of the colour runs
MaxGridLen == 30     \* largest length handed to compute_grid on its own
MaxWidth == 5        \* largest measured / maximum text width
MaxPt == 4           \* largest font size of a fit_font_size call on its own

(***************************************************************************)
(* Fixed look and feel.                                                    *)
(***************************************************************************)
FONT_SIZE_PT == 18
FONT_MIN_PT == 12
inch == 72
black == <<0, 0, 0>>
COLOR_PALETTE ==
    << <<128, 0, 0>>,      \* maroon
       black,
       <<0, 128, 0>>,      \* green
       <<255, 255, 0>>,    \* yellow
       <<255, 0, 0>>,      \* red
       <<0, 0, 255>>,      \* blue
       <<128, 0, 128>>,    \* purple (reportlab: HexColor(0x800080))
       <<255, 165, 0>>,    \* orange
       <<165, 42, 42>>,    \* brown
       <<0, 128, 128>>,    \* teal
       <<128, 0, 128>>,    \* Color(128/255, 0, 128/255), "purple" again
       <<0, 0, 128>> >>    \* navy
DRAW_BORDERS == FALSE

(***************************************************************************)
(* Arithmetic.                                                             *)
(***************************************************************************)
Max(a, b) == IF a >= b THEN a ELSE b

RECURSIVE Pow2(_)
Pow2(k) == IF k <= 0 THEN 1 ELSE 2 * Pow2(k - 1)

\* n / d rounded to the nearest integer, ties to the even one
RoundHalfEven(n, d) ==
    LET k == n \div d
        r == n % d
    IN  IF 2 * r < d THEN k
        ELSE IF 2 * r > d THEN k + 1
        ELSE IF k % 2 = 0 THEN k ELSE k + 1

\* least s >= 0 with a * 2^s >= b * 2^(MantBits-1)
RECURSIVE ScaleUp(_, _, _)
ScaleUp(a, b, s) ==
    IF a * Pow2(s) >= b * Pow2(MantBits - 1) THEN s ELSE ScaleUp(a, b, s + 1)

\* least t >= 0 with a < b * 2^(MantBits+t)
RECURSIVE ScaleDown(_, _, _)
ScaleDown(a, b, t) ==
    IF a < b * Pow2(MantBits + t) THEN t ELSE ScaleDown(a, b, t + 1)

\* an integer is a float when its significand has at most MantBits bits
RECURSIVE IsFloat(_)
IsFloat(n) ==
    IF n < Pow2(MantBits) THEN n >= 0
    ELSE n % 2 = 0 /\ IsFloat(n \div 2)

\* a / b for floats a > 0, b > 0, rounded to MantBits significant bits:
\* the float [num / den], den a power of two
FloatQuotient(a, b) ==
    IF a >= b * Pow2(MantBits)
    THEN LET t == ScaleDown(a, b, 0)
         IN  [num |-> RoundHalfEven(a, b * Pow2(t)) * Pow2(t), den |-> 1]
    ELSE LET s == ScaleUp(a, b, 0)
         IN  [num |-> RoundHalfEven(a * Pow2(s), b), den |-> Pow2(s)]

\* int(math.floor(a / b)), b > 0
FloorOfQuotient(a, b) ==
    IF a = 0 THEN 0
    ELSE IF a > 0
    THEN LET q == FloatQuotient(a, b) IN q.num \div q.den
    ELSE LET q == FloatQuotient(-a, b) IN -((q.num + q.den - 1) \div q.den)

compute_grid(work_w_in, work_h_in, sticker_w_in, sticker_h_in) ==
    LET cols == Max(FloorOfQuotient(work_w_in, sticker_w_in), 0)
        rows == Max(FloorOfQuotient(work_h_in, sticker_h_in), 0)
    IN  [cols |-> cols, rows |-> rows, capacity |-> cols * rows]

(***************************************************************************)
(* fit_font_size.  The text and the font enter through w, the width        *)
(* pdfmetrics.stringWidth measures at the desired size.  Sizes are         *)
(* rationals [num, den]; a "raise" result is the ZeroDivisionError of      *)
(* max_width_pt / w.                                                       *)
(***************************************************************************)
Rat(n, d) == [kind |-> "size", num |-> n, den |-> d]

RatLeq(p, q) == p.num * q.den <= q.num * p.den

RatMax(p, q) == IF RatLeq(q, p) THEN p ELSE q

\* mutant of fit_font_size: the scaled size is not clamped to the minimum
fit_font_size_unclamped(w, max_width_pt, desired_pt, min_pt) ==
    IF w <= max_width_pt THEN Rat(desired_pt, 1)
    ELSE IF desired_pt <= min_pt THEN Rat(min_pt, 1)
    ELSE IF w = 0 THEN [kind |-> "raise", num |-> 0, den |-> 1]
    ELSE Rat(desired_pt * max_width_pt, w)

fit_font_size(w, max_width_pt, desired_pt, min_pt) ==
    IF w <= max_width_pt THEN Rat(desired_pt, 1)
    ELSE IF desired_pt <= min_pt THEN Rat(min_pt, 1)
    ELSE IF w = 0 THEN [kind |-> "raise", num |-> 0, den |-> 1]
    ELSE RatMax(Rat(min_pt, 1), Rat(desired_pt * max_width_pt, w))

(***************************************************************************)
(* Cells of a frame.  A text is a sequence of characters; NaN is the       *)
(* missing value pandas keeps for an empty cell (a marker no text equals). *)
(* A count cell is a number in tenths, a non-numeric text, or missing.     *)
(***************************************************************************)
NaN == <<"NaN">>
EMPTY == <<>>
WHITESPACE == {" "}

Num(tenths) == [k |-> "num", v |-> tenths]
NotANumber == [k |-> "str", v |-> 0]
NaNCount == [k |-> "nan", v |-> 0]

RECURSIVE lstrip(_)
lstrip(s) ==
    IF s = <<>> THEN s
    ELSE IF Head(s) \in WHITESPACE THEN lstrip(Tail(s)) ELSE s

RECURSIVE rstrip(_)
rstrip(s) ==
    IF s = <<>> THEN s
    ELSE IF s[Len(s)] \in WHITESPACE THEN rstrip(SubSeq(s, 1, Len(s) - 1)) ELSE s

\* Series.str.strip(): a missing value stays missing
str_strip(v) == IF v = NaN THEN NaN ELSE rstrip(lstrip(v))

\* DataFrame.fillna("")
fillna_empty(v) == IF v = NaN THEN EMPTY ELSE v

\* Series.astype(str): "nan" for a missing value before pandas 3, missing kept from pandas 3 on
astype_str(v, nanText) ==
    IF v = NaN THEN (IF nanText THEN <<"n", "a", "n">> ELSE NaN) ELSE v

\* pd.to_numeric(errors="coerce").fillna(0).astype(int): truncation toward zero
to_count(c) ==
    IF c.k # "num" THEN 0
    ELSE IF c.v >= 0 THEN c.v \div 10 ELSE -((-c.v) \div 10)

\* the row filter (top != "") & (bottom != "") & (count > 0)
keep_row(top, bottom, count) == top # EMPTY /\ bottom # EMPTY /\ count > 0

RECURSIVE SelectRows(_)
SelectRows(rows) ==
    IF rows = <<>> THEN <<>>
    ELSE LET r == Head(rows)
         IN  (IF keep_row(r.top, r.bottom, r.count) THEN <<r>> ELSE <<>>)
             \o SelectRows(Tail(rows))

\* lines 144-149 of make_multi_sticker_pdf_dynamic
clean_jobs(frame, nanText) ==
    SelectRows([i \in 1..Len(frame) |->
        [top    |-> str_strip(astype_str(fillna_empty(frame[i].top), nanText)),
         bottom |-> str_strip(astype_str(fillna_empty(frame[i].bottom), nanText)),
         count  |-> to_count(frame[i].count)]])

\* lines 268-278 of _load_df_from_upload
clean_upload(frame, nanText) ==
    SelectRows([i \in 1..Len(frame) |->
        [top    |-> str_strip(astype_str(frame[i].top, nanText)),
         bottom |-> str_strip(astype_str(frame[i].bottom, nanText)),
         count  |-> to_count(frame[i].count)]])

\* a cleaned frame as the frame the next function receives
AsFrame(rows) ==
    [i \in 1..Len(rows) |->
        [top |-> rows[i].top, bottom |-> rows[i].bottom, count |-> Num(10 * rows[i].count)]]

(***************************************************************************)
(* Colour assigner, lines 153-158.                                         *)
(***************************************************************************)
\* df[['top', 'bottom']].drop_duplicates(): the pairs in first-seen order
RECURSIVE drop_duplicates(_, _)
drop_duplicates(rows, seen) ==
    IF rows = <<>> THEN seen
    ELSE LET p == <<Head(rows).top, Head(rows).bottom>>
         IN  drop_duplicates(Tail(rows),
                 IF \E j \in 1..Len(seen) : seen[j] = p THEN seen ELSE Append(seen, p))

\* i is the 0-based position of enumerate
color_index(i) == i % Len(COLOR_PALETTE)

build_color_mapping(rows) ==
    LET unique_rows == drop_duplicates(rows, <<>>)
    IN  [p \in {unique_rows[j] : j \in 1..Len(unique_rows)} |->
            COLOR_PALETTE[color_index(
                (CHOOSE j \in 1..Len(unique_rows) : unique_rows[j] = p) - 1) + 1]]

(***************************************************************************)
(* sticker_stream, lines 190-194: the items the generator yields, in order.*)
(***************************************************************************)
RECURSIVE Repeat(_, _)
Repeat(x, n) == IF n <= 0 THEN <<>> ELSE <<x>> \o Repeat(x, n - 1)

\* mutant of sticker_stream: the rows are emitted last row first
RECURSIVE sticker_stream(_, _)
sticker_stream_reversed(rows, mapping) ==
    IF rows = <<>> THEN <<>>
    ELSE LET row == Head(rows)
             item == [top |-> row.top, bottom |-> row.bottom,
                      color |-> mapping[<<row.top, row.bottom>>]]
         IN  sticker_stream(Tail(rows), mapping) \o Repeat(item, row.count)

sticker_stream(rows, mapping) ==
    IF rows = <<>> THEN <<>>
    ELSE LET row == Head(rows)
             item == [top |-> row.top, bottom |-> row.bottom,
                      color |-> mapping[<<row.top, row.bottom>>]]
         IN  Repeat(item, row.count) \o sticker_stream(Tail(rows), mapping)

RECURSIVE SumCounts(_)
SumCounts(rows) == IF rows = <<>> THEN 0 ELSE Head(rows).count + SumCounts(Tail(rows))

\* mutant of next_item: the padding cell keeps the colour of the last sticker
next_item_colored_blank(rows, mapping, pos) ==
    LET s == sticker_stream(rows, mapping)
    IN  IF pos < Len(s)
        THEN [top |-> s[pos + 1].top, bottom |-> s[pos + 1].bottom,
              color |-> s[pos + 1].color, is_blank |-> FALSE]
        ELSE [top |-> EMPTY, bottom |-> EMPTY, color |-> s[Len(s)].color, is_blank |-> TRUE]

\* next(stream): the item, or the blank of the StopIteration branch (lines 202-207)
next_item(rows, mapping, pos) ==
    LET s == sticker_stream(rows, mapping)
    IN  IF pos < Len(s)
        THEN [top |-> s[pos + 1].top, bottom |-> s[pos + 1].bottom,
              color |-> s[pos + 1].color, is_blank |-> FALSE]
        ELSE [top |-> EMPTY, bottom |-> EMPTY, color |-> black, is_blank |-> TRUE]

(***************************************************************************)
(* Geometry, lines 169-183 and 209-214, in points (all multiples of 72,    *)
(* so the halving of the offsets is exact).                                *)
(***************************************************************************)
geometry(a, g) ==
    LET work_w_in == a.page_w_in - 2 * a.margin_in
        work_h_in == a.page_h_in - 2 * a.margin_in
        sticker_w_pt == a.sticker_w_in * inch
        sticker_h_pt == a.sticker_h_in * inch
        used_w_pt == g.cols * sticker_w_pt
        used_h_pt == g.rows * sticker_h_pt
        work_w_pt == work_w_in * inch
        work_h_pt == work_h_in * inch
        diff_x == work_w_pt - used_w_pt
        diff_y == work_h_pt - used_h_pt
    IN  [page_w_pt |-> a.page_w_in * inch, page_h_pt |-> a.page_h_in * inch,
         left_margin_pt |-> a.margin_in * inch, bottom_margin_pt |-> a.margin_in * inch,
         sticker_w_pt |-> sticker_w_pt, sticker_h_pt |-> sticker_h_pt,
         work_w_pt |-> work_w_pt, work_h_pt |-> work_h_pt,
         offset_x_pt |-> IF diff_x >= 0 THEN diff_x \div 2 ELSE -((-diff_x) \div 2),
         offset_y_pt |-> IF diff_y >= 0 THEN diff_y \div 2 ELSE -((-diff_y) \div 2)]

slot_row(s, cols) == s \div cols
slot_col(s, cols) == s % cols
row_from_bottom(s, cols, rows) == (rows - 1) - slot_row(s, cols)
cell_x(s, g, m) == m.left_margin_pt + m.offset_x_pt + slot_col(s, g.cols) * m.sticker_w_pt
cell_y(s, g, m) ==
    m.bottom_margin_pt + m.offset_y_pt + row_from_bottom(s, g.cols, g.rows) * m.sticker_h_pt

(***************************************************************************)
(* draw_sticker, lines 91-124: what reaches the drawing surface for one    *)
(* cell.  A text is drawn only when it is non-empty.                       *)
(***************************************************************************)
draw_sticker(x_pt, y_pt, w_pt, h_pt, top_text, bottom_text, font_size_pt, text_color, draw_border) ==
    [x |-> x_pt, y |-> y_pt, w |-> w_pt, h |-> h_pt,
     border |-> draw_border,
     divider |-> TRUE,
     top |-> top_text, bottom |-> bottom_text,
     top_drawn |-> top_text # EMPTY, bottom_drawn |-> bottom_text # EMPTY,
     font_size |-> font_size_pt,
     color |-> text_color]

(***************************************************************************)
(* Inputs.                                                                 *)
(***************************************************************************)
SeqsUpTo(S, n) == UNION {[1..k -> S] : k \in 0..n}

\* rows of a job list handed to the paginator: valid rows, rows of count 0,
\* a row without top text
JobRows ==
    {[top |-> t, bottom |-> <<"X">>, count |-> Num(10 * c)] :
        t \in {<<"A">>, <<"B">>}, c \in 0..MaxCount}
    \cup {[top |-> EMPTY, bottom |-> <<"X">>, count |-> Num(10)]}

\* page specs in model units: every length and every difference
\* page - 2 * margin is a float of MantBits bits
PageArgs ==
    {[page_w_in |-> pw, page_h_in |-> 10, margin_in |-> m,
      sticker_w_in |-> sw, sticker_h_in |-> sh] :
        pw \in {12, 26}, m \in {0, 1, 5}, sw \in {4, 9}, sh \in {4, 12}}

FixedArgs ==
    [page_w_in |-> 12, page_h_in |-> 10, margin_in |-> 1,
     sticker_w_in |-> 9, sticker_h_in |-> 4]

\* cells as a file gives them: padded text, blank text, missing cells;
\* counts 2, 2.5, -1, 0.5, a word, missing
UploadRows ==
    {[top |-> t, bottom |-> b, count |-> c] :
        t \in {<<"A">>, <<" ", "A", " ">>, <<" ">>, NaN},
        b \in {<<"X">>, EMPTY, NaN},
        c \in {Num(20), Num(25), Num(-10), Num(5), NotANumber, NaNCount}}

\* job lists of n rows over k distinct (top, bottom) pairs, in rotation
ColorTexts == << <<"A">>, <<"B">>, <<"C">>, <<"D">> >>

ColorPair(p) == <<ColorTexts[((p - 1) \div 4) + 1], ColorTexts[((p - 1) % 4) + 1]>>

ColorJobs(n, k) ==
    [i \in 1..n |->
        [top |-> ColorPair(((i - 1) % k) + 1)[1],
         bottom |-> ColorPair(((i - 1) % k) + 1)[2],
         count |-> Num(10)]]

GridLens == {n \in 1..MaxGridLen : IsFloat(n)}

(***************************************************************************)
(* Initial states.                                                         *)
(***************************************************************************)
InitLocals ==
    /\ error = ""
    /\ df = <<>>
    /\ color_mapping = <<>>
    /\ grid = [cols |-> 0, rows |-> 0, capacity |-> 0]
    /\ geom = <<>>
    /\ canvas = FALSE
    /\ stream_pos = 0
    /\ total_count = 0
    /\ drawn = 0
    /\ slot = 0
    /\ page = <<>>
    /\ pages = <<>>
    /\ summary = <<>>

NoPureCall ==
    /\ grid_in = <<>>
    /\ grid_out = <<>>
    /\ fit_in = <<>>
    /\ fit_out = <<>>

\* a direct call of make_multi_sticker_pdf_dynamic
Init ==
    /\ nan_as_text = TRUE
    /\ upload = <<>>
    /\ jobs_df \in SeqsUpTo(JobRows, MaxRows)
    /\ args \in PageArgs
    /\ pc = "ready"
    /\ InitLocals
    /\ NoPureCall

\* a file through _load_df_from_upload, or its rows passed directly
InitLoad ==
    /\ nan_as_text \in BOOLEAN
    /\ \E rows \in SeqsUpTo(UploadRows, MaxUploadRows) :
          \/ upload = rows /\ jobs_df = <<>> /\ pc = "upload"
          \/ upload = <<>> /\ jobs_df = rows /\ pc = "ready"
    /\ args = FixedArgs
    /\ InitLocals
    /\ NoPureCall

\* job lists with many distinct pairs
InitColor ==
    /\ nan_as_text = TRUE
    /\ upload = <<>>
    /\ \E n \in 1..MaxColorRows : \E k \in 1..n : jobs_df = ColorJobs(n, k)
    /\ args = FixedArgs
    /\ pc = "ready"
    /\ InitLocals
    /\ NoPureCall

Idle ==
    /\ nan_as_text = TRUE
    /\ upload = <<>>
    /\ jobs_df = <<>>
    /\ args = FixedArgs
    /\ pc = "idle"
    /\ InitLocals

InitGrid ==
    /\ Idle
    /\ grid_in \in [w : GridLens, h : {8, 10}, cw : GridLens, ch : {4, 9}]
    /\ grid_out = <<>>
    /\ fit_in = <<>>
    /\ fit_out = <<>>

InitFit ==
    /\ Idle
    /\ grid_in = <<>>
    /\ grid_out = <<>>
    /\ fit_in \in [w : 0..MaxWidth, max_width_pt : (-1)..MaxWidth,
                   desired_pt : 1..MaxPt, min_pt : 1..MaxPt]
                  \cup [w : 0..MaxWidth, max_width_pt : (-1)..MaxWidth,
                        desired_pt : {FONT_SIZE_PT}, min_pt : {FONT_MIN_PT}]
    /\ fit_out = <<>>

(***************************************************************************)
(* Actions.                                                                *)
(***************************************************************************)
Raise(msg) ==
    /\ pc' = "raised"
    /\ error' = msg
    /\ UNCHANGED <<nan_as_text, upload, jobs_df, args, df, color_mapping, grid, geom,
                   canvas, stream_pos, total_count, drawn, slot, page, pages, summary>>

\* guards of lines 150, 162 and 166
no_valid_rows(rows) == rows = <<>>
margins_too_large(work_w_in, work_h_in) == work_w_in <= 0 \/ work_h_in <= 0
\* mutant of does_not_fit: a capacity of 0 passes
does_not_fit_negative(capacity) == capacity < 0
does_not_fit(capacity) == capacity <= 0

\* mutants of loop_done: the loop ends one sticker early / never ends on an exact total
loop_done_early(n_drawn, n_total) == n_drawn + 1 >= n_total
loop_done_late(n_drawn, n_total) == n_drawn > n_total

\* the test of line 224 that ends the page loop
loop_done(n_drawn, n_total) == n_drawn >= n_total

\* _load_df_from_upload, lines 268-281 (every row of the file has its three columns)
LoadUpload ==
    /\ pc = "upload"
    /\ LET loaded == clean_upload(upload, nan_as_text)
       IN  IF no_valid_rows(loaded)
           THEN Raise("No valid rows found.")
           ELSE /\ jobs_df' = AsFrame(loaded)
                /\ pc' = "ready"
                /\ UNCHANGED <<nan_as_text, upload, args, error, df, color_mapping, grid,
                               geom, canvas, stream_pos, total_count, drawn, slot, page,
                               pages, summary>>
    /\ UNCHANGED pureVars

\* make_multi_sticker_pdf_dynamic up to the page loop, lines 144-198
Generate ==
    /\ pc = "ready"
    /\ LET rows == clean_jobs(jobs_df, nan_as_text)
           work_w_in == args.page_w_in - 2 * args.margin_in
           work_h_in == args.page_h_in - 2 * args.margin_in
       IN  IF no_valid_rows(rows)
           THEN Raise("No valid sticker rows.")
           ELSE IF margins_too_large(work_w_in, work_h_in)
           THEN Raise("Margins are too large for the page size.")
           ELSE LET g == compute_grid(work_w_in, work_h_in,
                                      args.sticker_w_in, args.sticker_h_in)
                IN  IF does_not_fit(g.capacity)
                    THEN Raise("Sticker size does not fit the working area.")
                    ELSE /\ df' = rows
                         /\ color_mapping' = build_color_mapping(rows)
                         /\ grid' = g
                         /\ geom' = geometry(args, g)
                         /\ canvas' = TRUE
                         /\ stream_pos' = 0
                         /\ total_count' = SumCounts(rows)
                         /\ drawn' = 0
                         /\ slot' = 0
                         /\ pc' = "drawing"
                         /\ UNCHANGED <<nan_as_text, upload, jobs_df, args, error,
                                        page, pages, summary>>
    /\ UNCHANGED pureVars

\* one pass of `for slot in range(capacity)`, lines 201-221
DrawCell ==
    /\ pc = "drawing"
    /\ slot < grid.capacity
    /\ LET item == next_item(df, color_mapping, stream_pos)
           cell == draw_sticker(cell_x(slot, grid, geom), cell_y(slot, grid, geom),
                                geom.sticker_w_pt, geom.sticker_h_pt,
                                item.top, item.bottom, FONT_SIZE_PT, item.color,
                                DRAW_BORDERS)
       IN  /\ page' = Append(page, cell @@ [slot |-> slot, is_blank |-> item.is_blank])
           /\ stream_pos' = IF item.is_blank THEN stream_pos ELSE stream_pos + 1
           /\ drawn' = IF item.is_blank THEN drawn ELSE drawn + 1
    /\ slot' = slot + 1
    /\ UNCHANGED <<nan_as_text, upload, jobs_df, args, pc, error, df, color_mapping,
                   grid, geom, canvas, total_count, pages, summary>>
    /\ UNCHANGED pureVars

\* the end of the for loop: c.showPage() and the test of line 224
ShowPage ==
    /\ pc = "drawing"
    /\ slot >= grid.capacity
    /\ pages' = Append(pages, page)
    /\ page' = <<>>
    /\ slot' = 0
    /\ pc' = IF loop_done(drawn, total_count) THEN "saving" ELSE "drawing"
    /\ UNCHANGED <<nan_as_text, upload, jobs_df, args, error, df, color_mapping,
                   grid, geom, canvas, stream_pos, total_count, drawn, summary>>
    /\ UNCHANGED pureVars

\* math.ceil(drawn / capacity): a quotient of two integers far below 2^53,
\* where the rounding of the division cannot reach a whole number, so the
\* ceiling is the exact one
Ceil(a, b) == (a + b - 1) \div b

\* c.save() and the return, lines 227-235
SaveAndReturn ==
    /\ pc = "saving"
    /\ summary' = [cols |-> grid.cols, rows |-> grid.rows, per_page |-> grid.capacity,
                   total |-> drawn, pages |-> Ceil(drawn, grid.capacity),
                   colors_used |-> Cardinality({color_mapping[p] : p \in DOMAIN color_mapping})]
    /\ pc' = "returned"
    /\ UNCHANGED <<nan_as_text, upload, jobs_df, args, error, df, color_mapping, grid,
                   geom, canvas, stream_pos, total_count, drawn, slot, page, pages>>
    /\ UNCHANGED pureVars

\* a call of compute_grid on its own
ComputeGrid ==
    /\ grid_in # <<>>
    /\ grid_out = <<>>
    /\ grid_out' = compute_grid(grid_in.w, grid_in.h, grid_in.cw, grid_in.ch)
    /\ UNCHANGED <<grid_in, fit_in, fit_out>>
    /\ UNCHANGED pipeVars

\* a call of fit_font_size on its own
FitFontSize ==
    /\ fit_in # <<>>
    /\ fit_out = <<>>
    /\ fit_out' = fit_font_size(fit_in.w, fit_in.max_width_pt, fit_in.desired_pt, fit_in.min_pt)
    /\ UNCHANGED <<grid_in, grid_out, fit_in>>
    /\ UNCHANGED pipeVars

Next == Generate \/ DrawCell \/ ShowPage \/ SaveAndReturn

NextLoad == LoadUpload \/ Generate \/ DrawCell \/ ShowPage \/ SaveAndReturn

Spec == Init /\ [][Next]_vars

SpecLoad == InitLoad /\ [][NextLoad]_vars

SpecColor == InitColor /\ [][Next]_vars

SpecGrid == InitGrid /\ [][ComputeGrid]_vars

SpecFit == InitFit /\ [][FitFontSize]_vars

(***************************************************************************)
(* What the properties speak about, stated from the inputs.                *)
(***************************************************************************)
\* a row is valid when both texts are present and non-blank and the count
\* is a number of at least 1
ValidJob(r) ==
    /\ r.top # NaN /\ rstrip(lstrip(r.top)) # <<>>
    /\ r.bottom # NaN /\ rstrip(lstrip(r.bottom)) # <<>>
    /\ r.count.k = "num" /\ r.count.v >= 10

RECURSIVE ExpectedTotal(_)
ExpectedTotal(frame) ==
    IF frame = <<>> THEN 0
    ELSE (IF ValidJob(Head(frame)) THEN Head(frame).count.v \div 10 ELSE 0)
         + ExpectedTotal(Tail(frame))

\* the valid rows in input order, each repeated count times
RECURSIVE ExpectedStream(_)
ExpectedStream(frame) ==
    IF frame = <<>> THEN <<>>
    ELSE LET r == Head(frame)
         IN  (IF ValidJob(r)
              THEN [i \in 1..(r.count.v \div 10) |->
                       <<rstrip(lstrip(r.top)), rstrip(lstrip(r.bottom))>>]
              ELSE <<>>)
             \o ExpectedStream(Tail(frame))

RECURSIVE Flatten(_)
Flatten(ps) == IF ps = <<>> THEN <<>> ELSE Head(ps) \o Flatten(Tail(ps))

\* every cell drawn so far, page by page and slot by slot
AllCells == Flatten(pages) \o page

IsReal(c) == ~c.is_blank

RealCells == SelectSeq(AllCells, IsReal)

Started == pc \in {"drawing", "saving", "returned"}

WorkW == args.page_w_in - 2 * args.margin_in
WorkH == args.page_h_in - 2 * args.margin_in

(***************************************************************************)
(* C1: a call with at least one valid row and a page spec of capacity > 0  *)
(* returns; it has then emitted exactly ceil(sum(counts) / capacity)       *)
(* pages and reports that number as summary "pages"; the last page holds   *)
(* a real sticker and no earlier page holds a blank cell.                  *)
(***************************************************************************)
\* C1: page count, summary "pages", full earlier pages, a real sticker on the last
C1_PageCount ==
    /\ (ExpectedTotal(jobs_df) > 0 /\ WorkW > 0 /\ WorkH > 0
          /\ compute_grid(WorkW, WorkH, args.sticker_w_in, args.sticker_h_in).capacity > 0)
       => pc # "raised"
    /\ pc = "returned" =>
          LET n == Ceil(ExpectedTotal(jobs_df), grid.capacity)
          IN  /\ ExpectedTotal(jobs_df) > 0
              /\ Len(pages) = n
              /\ summary.pages = n
              /\ \E c \in 1..Len(pages[n]) : ~pages[n][c].is_blank
              /\ \A q \in 1..(n - 1) : \A c \in 1..Len(pages[q]) : ~pages[q][c].is_blank

\* C1 witness: three pages were emitted and the last one is padded
C1_Witness ==
    /\ pc = "returned"
    /\ Len(pages) = 3
    /\ \E c \in 1..Len(pages[3]) : pages[3][c].is_blank

(***************************************************************************)
(* C2: the real stickers drawn, page by page and slot by slot, are the     *)
(* valid rows in input order, each repeated count times in a row; nothing  *)
(* is skipped, doubled or reordered, also across a page boundary; every    *)
(* sticker carries the colour mapped to its own (top, bottom) pair.        *)
(***************************************************************************)
\* C2: the real cells are the expected stream so far, each in its pair's colour
C2_StreamOrder ==
    Started =>
        LET real == RealCells
            exp == ExpectedStream(jobs_df)
        IN  /\ Len(real) = drawn
            /\ Len(real) <= Len(exp)
            /\ \A i \in 1..Len(real) :
                  /\ <<real[i].top, real[i].bottom>> = exp[i]
                  /\ real[i].top_drawn /\ real[i].bottom_drawn
                  /\ real[i].color = color_mapping[exp[i]]
            /\ pc \in {"saving", "returned"} => Len(real) = Len(exp)

\* C2 witness: two rows of different pairs went out over two pages, the
\* first row crossing the page boundary
C2_Witness ==
    /\ pc = "returned"
    /\ Len(pages) = 2
    /\ Len(pages[1]) >= 2
    /\ pages[1][Len(pages[1])].top = pages[2][1].top
    /\ ~pages[2][1].is_blank
    /\ \E c \in 2..Len(pages[2]) :
          ~pages[2][c].is_blank /\ pages[2][c].top # pages[2][1].top

(***************************************************************************)
(* C4: every emitted page has exactly capacity cells; cols, rows and       *)
(* capacity are computed once and never change afterwards; on a page,      *)
(* after a blank placeholder only blanks follow; a blank is drawn with     *)
(* empty top and bottom text, colour black and its divider.                *)
(***************************************************************************)
BlanksTrail(cells) ==
    \A i \in 1..Len(cells) : \A j \in i..Len(cells) :
        cells[i].is_blank => cells[j].is_blank

BlankIsBare(c) ==
    c.is_blank =>
        /\ c.top = EMPTY /\ c.bottom = EMPTY
        /\ ~c.top_drawn /\ ~c.bottom_drawn
        /\ c.color = black
        /\ c.divider

C4_PageShape ==
    Started =>
        /\ \A q \in 1..Len(pages) : Len(pages[q]) = grid.capacity /\ BlanksTrail(pages[q])
        /\ Len(page) <= grid.capacity
        /\ BlanksTrail(page)
        /\ \A i \in 1..Len(AllCells) : BlankIsBare(AllCells[i])

C4_GridFixed == Started => grid' = grid

\* C4: every page has capacity cells with trailing bare blanks, and the grid
\* never changes once the loop has started
C4_ConstantCapacity == []C4_PageShape /\ [][C4_GridFixed]_vars

\* C4 witness: a later page that holds a real sticker followed by blanks
C4_Witness ==
    /\ pc = "returned"
    /\ Len(pages) >= 2
    /\ ~pages[Len(pages)][1].is_blank
    /\ pages[Len(pages)][grid.capacity].is_blank
    /\ grid.capacity >= 3

(***************************************************************************)
(* C5: with no valid row, with a working width or height <= 0, or with     *)
(* grid capacity 0 the call fails with a validation error, raised before   *)
(* the drawing surface exists or a cell is drawn; no document and no       *)
(* summary come back.                                                      *)
(***************************************************************************)
ValidationErrors ==
    {"No valid sticker rows.", "Margins are too large for the page size.",
     "Sticker size does not fit the working area."}

MustFail ==
    \/ \A i \in 1..Len(jobs_df) : ~ValidJob(jobs_df[i])
    \/ WorkW <= 0
    \/ WorkH <= 0
    \/ compute_grid(WorkW, WorkH, args.sticker_w_in, args.sticker_h_in).capacity = 0

\* C5: each failing case ends in a validation error, with no canvas, no cell,
\* no page and no summary
C5_FailFast ==
    /\ (pc # "ready" /\ MustFail) =>
          /\ pc = "raised"
          /\ error \in ValidationErrors
    /\ pc = "raised" =>
          /\ ~canvas
          /\ pages = <<>> /\ page = <<>> /\ drawn = 0
          /\ summary = <<>>

\* C5 witness: the cell does not fit, the rows are valid, the working area is positive
C5_Witness ==
    /\ pc = "raised"
    /\ error = "Sticker size does not fit the working area."
    /\ \E i \in 1..Len(jobs_df) : ValidJob(jobs_df[i])
    /\ WorkW > 0 /\ WorkH > 0

(***************************************************************************)
(* C10: the page loop terminates; drawn grows by exactly capacity on every *)
(* page but the last; the loop stops right after the first page on which   *)
(* drawn reaches the total; no page follows the one with the last real     *)
(* sticker; the summary "total" is the sum of the counts of the valid rows.*)
(* Termination is stated through a variant, so that a finite run refutes   *)
(* it: no step moves the position back, every step of the loop lowers      *)
(* LoopMeasure, which stays >= 0.                                          *)
(***************************************************************************)
C10_PageStep ==
    (pc = "drawing" /\ pages' # pages) =>
        /\ Len(pages') = Len(pages) + 1
        /\ IF drawn >= ExpectedTotal(jobs_df)
           THEN pc' = "saving"
           ELSE pc' = "drawing" /\ drawn = grid.capacity * Len(pages')

C10_NoPageAfter == pc \in {"saving", "returned"} => pages' = pages

C10_Total ==
    /\ Started => total_count = ExpectedTotal(jobs_df)
    /\ pc = "returned" => summary.total = ExpectedTotal(jobs_df)

\* termination as a variant: the position never moves back, and while the
\* loop runs every step lowers a measure that stays >= 0
Rank(p) ==
    CASE p = "ready" -> 3
      [] p = "drawing" -> 2
      [] p = "saving" -> 1
      [] OTHER -> 0

LoopMeasure ==
    (Ceil(ExpectedTotal(jobs_df), grid.capacity) - Len(pages)) * (grid.capacity + 1) - slot

C10_Progress ==
    /\ Rank(pc') <= Rank(pc)
    /\ Rank(pc') = Rank(pc) => (LoopMeasure' < LoopMeasure /\ LoopMeasure' >= 0)

\* C10: the loop ends by the variant, page by page as stated, with the total
\* of the valid rows in the summary
C10_Terminates ==
    /\ [][C10_PageStep /\ C10_NoPageAfter /\ C10_Progress]_vars
    /\ []C10_Total

\* C10 witness: returned after more than one page, all stickers drawn
C10_Witness ==
    /\ pc = "returned"
    /\ Len(pages) >= 2
    /\ summary.total = MaxRows * MaxCount

(***************************************************************************)
(* C3: the i-th distinct (top, bottom) pair in first-seen order gets       *)
(* COLOR_PALETTE[i mod paletteSize]; two distinct pairs get different      *)
(* colours as long as there are at most paletteSize (12) distinct pairs;   *)
(* beyond that the colours repeat with period paletteSize.                 *)
(***************************************************************************)
RECURSIVE FirstSeen(_, _)
FirstSeen(stream, acc) ==
    IF stream = <<>> THEN acc
    ELSE FirstSeen(Tail(stream),
             IF \E j \in 1..Len(acc) : acc[j] = Head(stream) THEN acc
             ELSE Append(acc, Head(stream)))

DistinctPairs == FirstSeen(ExpectedStream(jobs_df), <<>>)

PaletteSize == Len(COLOR_PALETTE)

\* the assignment by first-seen index alone
C3_ByIndex ==
    Started =>
        /\ DOMAIN color_mapping = {DistinctPairs[i] : i \in 1..Len(DistinctPairs)}
        /\ \A i \in 1..Len(DistinctPairs) :
              color_mapping[DistinctPairs[i]] = COLOR_PALETTE[((i - 1) % PaletteSize) + 1]

\* C3: colours by first-seen index, distinct up to the palette size, periodic beyond
C3_DistinctColors ==
    Started =>
        /\ C3_ByIndex
        /\ Len(DistinctPairs) <= PaletteSize =>
              \A i, j \in 1..Len(DistinctPairs) :
                  i # j => color_mapping[DistinctPairs[i]] # color_mapping[DistinctPairs[j]]
        /\ \A i, j \in 1..Len(DistinctPairs) :
              (i % PaletteSize = j % PaletteSize) =>
                  color_mapping[DistinctPairs[i]] = color_mapping[DistinctPairs[j]]

(***************************************************************************)
(* C6: a row whose top or bottom cell is empty or missing after trimming,  *)
(* or whose count is non-positive or unparseable, never contributes a      *)
(* sticker, whether the rows come through _load_df_from_upload or are      *)
(* passed directly; the valid rows keep their order.                       *)
(***************************************************************************)
\* the rows as they were given
Origin == IF upload # <<>> THEN upload ELSE jobs_df

StickersFromValidRows ==
    Started =>
        LET real == RealCells
            exp == ExpectedStream(Origin)
        IN  /\ Len(real) <= Len(exp)
            /\ \A i \in 1..Len(real) : <<real[i].top, real[i].bottom>> = exp[i]
            /\ pc = "returned" => Len(real) = Len(exp)

\* C6: every real sticker drawn comes from a valid row of the rows as given,
\* in their order, through the loader and on a direct call alike
C6_InvalidRowsDropped == StickersFromValidRows

\* the same statement for rows passed directly, where it holds
C6_DirectCall == upload = <<>> => StickersFromValidRows

(***************************************************************************)
(* C7: for w, h, cw, ch > 0 compute_grid returns cols = floor(w / cw),     *)
(* rows = floor(h / ch), capacity = cols * rows; cols * cw <= w and        *)
(* rows * ch <= h; the result is maximal; cols and rows are not negative.  *)
(***************************************************************************)
\* C7: floor, no overflow, maximality, non-negativity
C7_GridFits ==
    grid_out # <<>> =>
        /\ grid_out.cols = grid_in.w \div grid_in.cw
        /\ grid_out.rows = grid_in.h \div grid_in.ch
        /\ grid_out.capacity = grid_out.cols * grid_out.rows
        /\ grid_out.cols * grid_in.cw <= grid_in.w
        /\ grid_out.rows * grid_in.ch <= grid_in.h
        /\ (grid_out.cols + 1) * grid_in.cw > grid_in.w
        /\ (grid_out.rows + 1) * grid_in.ch > grid_in.h
        /\ grid_out.cols >= 0 /\ grid_out.rows >= 0

\* what does hold: the count is the floor or one more, the latter only
\* when the quotient rounds up to a whole number
C7_OffByAtMostOne ==
    grid_out # <<>> =>
        /\ grid_out.cols \in {grid_in.w \div grid_in.cw, (grid_in.w \div grid_in.cw) + 1}
        /\ grid_out.rows \in {grid_in.h \div grid_in.ch, (grid_in.h \div grid_in.ch) + 1}
        /\ grid_out.capacity = grid_out.cols * grid_out.rows

(***************************************************************************)
(* C8: slot s of a page lies at logical row s div cols and column          *)
(* s mod cols, physical row (rows - 1) - (s div cols) from the bottom, so  *)
(* slot 0 is the top-left cell; the offsets are symmetric and not          *)
(* negative; every cell lies inside the working area; two slots of a page  *)
(* never overlap.                                                          *)
(***************************************************************************)
MarginPt == args.margin_in * inch

CellPlaced(c) ==
    /\ c.x = MarginPt + geom.offset_x_pt + (c.slot % grid.cols) * (args.sticker_w_in * inch)
    /\ c.y = MarginPt + geom.offset_y_pt
               + ((grid.rows - 1) - (c.slot \div grid.cols)) * (args.sticker_h_in * inch)
    /\ c.w = args.sticker_w_in * inch
    /\ c.h = args.sticker_h_in * inch

CellInside(c) ==
    /\ c.x >= MarginPt
    /\ c.x + c.w <= args.page_w_in * inch - MarginPt
    /\ c.y >= MarginPt
    /\ c.y + c.h <= args.page_h_in * inch - MarginPt

Disjoint(c, d) ==
    \/ c.x + c.w <= d.x
    \/ d.x + d.w <= c.x
    \/ c.y + c.h <= d.y
    \/ d.y + d.h <= c.y

PageWellPlaced(cells) ==
    /\ \A i \in 1..Len(cells) :
          /\ cells[i].slot = i - 1
          /\ CellPlaced(cells[i])
          /\ CellInside(cells[i])
          \* slot 0 is the leftmost cell of the topmost row
          /\ cells[1].x <= cells[i].x /\ cells[1].y >= cells[i].y
    /\ \A i, j \in 1..Len(cells) : i # j => Disjoint(cells[i], cells[j])

\* C8: placement by slot, symmetric non-negative offsets, cells inside the
\* working area, no overlap
C8_SlotPlacement ==
    Started =>
        /\ geom.offset_x_pt >= 0 /\ geom.offset_y_pt >= 0
        /\ 2 * geom.offset_x_pt + grid.cols * args.sticker_w_in * inch = WorkW * inch
        /\ 2 * geom.offset_y_pt + grid.rows * args.sticker_h_in * inch = WorkH * inch
        /\ \A q \in 1..Len(pages) : PageWellPlaced(pages[q])
        /\ PageWellPlaced(page)

\* what does hold whatever the grid: the slot order, the symmetry of the
\* offsets, and no two cells of a page overlapping
C8_OrderAndSymmetry ==
    Started =>
        /\ 2 * geom.offset_x_pt + grid.cols * args.sticker_w_in * inch = WorkW * inch
        /\ 2 * geom.offset_y_pt + grid.rows * args.sticker_h_in * inch = WorkH * inch
        /\ \A i \in 1..Len(page) :
              /\ page[i].slot = i - 1 /\ CellPlaced(page[i])
              /\ \A j \in 1..Len(page) : i # j => Disjoint(page[i], page[j])

(***************************************************************************)
(* C9: fit_font_size returns the desired size when the text fits at that   *)
(* size, and otherwise desired * (maxWidth / measuredWidth) clamped from   *)
(* below by the minimum size; the result is never below the minimum and    *)
(* never above the desired size.                                           *)
(***************************************************************************)
FitResultAsClaimed ==
    /\ fit_out.kind = "size"
    /\ fit_in.w <= fit_in.max_width_pt =>
          fit_out.num = fit_in.desired_pt * fit_out.den
    /\ fit_in.w > fit_in.max_width_pt =>
          IF fit_in.desired_pt * fit_in.max_width_pt >= fit_in.min_pt * fit_in.w
          THEN fit_out.num * fit_in.w = fit_in.desired_pt * fit_in.max_width_pt * fit_out.den
          ELSE fit_out.num = fit_in.min_pt * fit_out.den
    /\ fit_out.num >= fit_in.min_pt * fit_out.den
    /\ fit_out.num <= fit_in.desired_pt * fit_out.den

====
